---- MODULE Spec2Model ----
(***************************************************************************)
(* A model of mago.go: the pipeline of PipedCmds.Run (pipe / call), the    *)
(* change watcher WatchFiles with its sentinel file, and the Watch loop    *)
(* with Cmd.KillGroup.  Stage and channel indices are 0-based as in the    *)
(* source.                                                                 *)
(***************************************************************************)
EXTENDS Integers, Sequences, FiniteSets, TLC

\* ------------------------------------------------------------------ bounds
\* The longest pipeline handed to PipedCmds.Run.
MaxStages == 3

\* The clock runs from 0 to MaxTime.
MaxTime == 2

\* The process ids the operating system hands out are 1 .. MaxPids.
MaxPids == 3

VARIABLES
    \* ---- PipedCmds.Run / pipe / call
    nCmds,      \* len(cmds) of the pipeline being run
    cmds,       \* stage -> [Process, Stdin, Stdout] (exec.Cmd fields)
    pipeStack,  \* pipe's pipeStack: index -> channel id
    closed,     \* channel id -> number of Close calls on its write end
    ppc,        \* position of the thread of control inside Run/pipe/call
    i,          \* pipe's loop variable
    head,       \* index in cmds of stack[0] of the innermost call frame
    err,        \* the named result err of the innermost call frame
    ok,         \* Run's named result ok: false until Run returns
    log,        \* the Start/Wait/Close calls made so far, in order
    \* ---- WatchFiles
    now,        \* the clock
    mtime,      \* entry of the tree -> its modification time
    watchFile,  \* the sentinel: NilFile, or the modification time of the file
    last,       \* the latest WatchFiles call: what it returned and met
    touched,    \* some entry was modified since the latest WatchFiles call
    calls,      \* number of WatchFiles calls so far, modulo 2
    reported,   \* "no", or: a call returned true and nothing was modified
                \* since ("late" if an entry was then dated after the clock)
    patternSet, \* the (patterns, ignoredPatterns) the caller watches with
    \* ---- Watch / Cmd.KillGroup
    wpc,        \* position of the thread of control inside Watch
    cmd,        \* Watch's cmd: the pid of its process, NilProcess without one
    procs,      \* pid -> the operating system's process of that id
    pgid,       \* KillGroup's local pgid
    killOk      \* what the latest KillGroup call returned ("none" before)

pipeVars == <<nCmds, cmds, pipeStack, closed, ppc, i, head, err, ok, log>>

watchVars == <<now, mtime, watchFile, last, touched, calls, reported, patternSet>>

loopVars == <<wpc, cmd, procs, pgid, killOk>>

vars == <<pipeVars, watchVars, loopVars>>

\* What the pipeline leaves alone, and what the watcher leaves alone.
notPipe == <<watchVars, loopVars>>
notWatch == <<pipeVars, loopVars>>

\* ------------------------------------------------------------ change watcher
\* Paths and patterns are sequences of one-character strings.
\* The tree below the working directory, in the lexical order in which
\* filepath.Walk(".") visits it:  .  m.go  v  v/x.go
\* The tree itself is fixed: no entry is created, removed or renamed, so the
\* modification times of the two directories never change.
Entries ==
    << [path |-> <<".">>, dir |-> TRUE],
       [path |-> <<"m", ".", "g", "o">>, dir |-> FALSE],
       [path |-> <<"v">>, dir |-> TRUE],
       [path |-> <<"v", "/", "x", ".", "g", "o">>, dir |-> FALSE] >>

EntryIds == 1 .. Len(Entries)

\* The (patterns, ignoredPatterns) arguments a caller passes to WatchFiles.
PatternSets ==
    << [patterns |-> << <<"*", ".", "g", "o">> >>, ignored |-> << >>],
       [patterns |-> << <<"*", ".", "g", "o">> >>, ignored |-> << <<"v", "/", "*">> >>],
       [patterns |-> << <<"*", ".", "g", "o">> >>, ignored |-> << <<"v">> >>],
       [patterns |-> << <<"?", ".", "g", "o">> >>, ignored |-> << <<"x", ".", "*">>, <<"v">> >>],
       [patterns |-> << <<"v">>, <<"*", "g", "o">> >>, ignored |-> << <<"m", "*">> >>] >>

PatternSetIds == 1 .. Len(PatternSets)

NilFile == -1
\* last: whether a call was made; what it returned; whether its walk was cut
\* short by an error (of the walk, or of watchFile.Stat); whether an entry was
\* then dated after the clock; whether it came after an earlier call
\* that was neither, with no modification in between; the error the call
\* met ("none", "walk", "stat", "create", "recreate"); and the entry at
\* which its walk found a change (0: none).
NoCall == [called |-> FALSE, result |-> FALSE, aborted |-> FALSE,
           future |-> FALSE, quiet |-> FALSE, met |-> "none", at |-> 0]

Files == {k \in EntryIds : ~Entries[k].dir}

\* What can go wrong in one WatchFiles call: nothing, watchFile.Stat(), the
\* os.CreateTemp of line 227 or the one of line 265.
Faults == {"none", "stat", "create", "recreate"}

\* fs.FileInfo.Name(): the last element of the path.
Name(path) ==
    LET seps == {k \in 1 .. Len(path) : path[k] = "/"}
        lastSep == IF seps = {} THEN 0
                   ELSE CHOOSE k \in seps : \A j \in seps : j <= k
    IN  SubSeq(path, lastSep + 1, Len(path))

\* filepath.Match for patterns of literals, '*' and '?': '*' matches any
\* run of non-separator characters, '?' one non-separator character.  Such
\* patterns are never malformed, so the error result is always nil.
RECURSIVE Match(_, _)
Match(pattern, name) ==
    IF pattern = <<>> THEN name = <<>>
    ELSE IF Head(pattern) = "*"
         THEN \/ Match(Tail(pattern), name)
              \/ /\ name /= <<>>
                 /\ Head(name) /= "/"
                 /\ Match(pattern, Tail(name))
    ELSE IF Head(pattern) = "?"
         THEN /\ name /= <<>>
              /\ Head(name) /= "/"
              /\ Match(Tail(pattern), Tail(name))
    ELSE /\ name /= <<>>
         /\ Head(name) = Head(pattern)
         /\ Match(Tail(pattern), Tail(name))

\* An ignore test that looks at the path alone.
IsIgnoredPathOnly(ignoredPatterns, k) ==
    \E n \in 1 .. Len(ignoredPatterns) :
        Match(ignoredPatterns[n], Entries[k].path)

\* WatchFiles, lines 238-247: the entry's path or name matches an ignored
\* pattern.
IsIgnored(ignoredPatterns, k) ==
    \E n \in 1 .. Len(ignoredPatterns) :
        \/ Match(ignoredPatterns[n], Entries[k].path)
        \/ Match(ignoredPatterns[n], Name(Entries[k].path))

\* A watched test that matches the patterns against the whole path.
PatternMatchedByPath(patterns, k) ==
    \E n \in 1 .. Len(patterns) : Match(patterns[n], Entries[k].path)

\* WatchFiles, lines 249-256: the entry's name matches a watched pattern.
PatternMatched(patterns, k) ==
    \E n \in 1 .. Len(patterns) : Match(patterns[n], Name(Entries[k].path))

\* A comparison that also takes an equal time for a later one.
NotBefore(t, u) == t >= u

\* time.Time.After
After(t, u) == t > u

\* The walk function on entry k (lines 233-271) with the sentinel's time ref:
\* "next" (return nil: the walk goes on, into a directory too), "changed"
\* (lines 263-266) or "staterr" (lines 259-262).
Visit(k, ref, statErr) ==
    IF IsIgnored(PatternSets[patternSet].ignored, k) THEN "next"
    ELSE IF PatternMatched(PatternSets[patternSet].patterns, k)
         THEN IF statErr THEN "staterr"
              ELSE IF After(mtime[k], ref) THEN "changed"
              ELSE "next"
    ELSE "next"

\* filepath.Walk from entry k on.  errAt is the entry at which the walk
\* meets an error (0: none): the function is called with err != nil and
\* returns it, which ends the walk.  The result is the entry that was found
\* changed (0: none), whether the walk was cut short by an error, and which
\* error that was.
RECURSIVE Walk(_, _, _, _)
Walk(k, ref, errAt, statErr) ==
    IF k > Len(Entries) THEN [at |-> 0, aborted |-> FALSE, met |-> "none"]
    ELSE IF k = errAt THEN [at |-> 0, aborted |-> TRUE, met |-> "walk"]
    ELSE LET v == Visit(k, ref, statErr)
         IN  IF v = "changed" THEN [at |-> k, aborted |-> FALSE, met |-> "none"]
             ELSE IF v = "staterr" THEN [at |-> 0, aborted |-> TRUE, met |-> "stat"]
             ELSE Walk(k + 1, ref, errAt, statErr)

\* ------------------------------------------------------------ processes
Pids == 1 .. MaxPids
NilProcess == 0

\* state: "none" (the id is free), "running", "zombie" (exited, not waited
\* for) or "gone" (waited for, or exited without a parent to wait);
\* child: started by Watch, else a child's own child; sigterm: SIGTERM was
\* sent to it.
NoProc == [state |-> "none", child |-> FALSE, pgid |-> 0, sigterm |-> FALSE]

\* ---------------------------------------------------------------- pipeline
Stages == 0 .. (nCmds - 1)
NoChan == -1

\* exec.Command: no process yet, streams not redirected to a channel.
NewCmd == [Process |-> "nil", Stdin |-> NoChan, Stdout |-> NoChan]

\* Cmd.Process() == nil
ProcessIsNil(k) == cmds[k].Process = "nil"

\* A wait that reports no error whatever the exit status.
WaitResultAlwaysNil(k) == "nil"

\* cmd.Wait() once the process has exited: nil for status zero, an error
\* otherwise.
WaitResult(k) == IF cmds[k].Process = "exit0" THEN "nil" ELSE "error"

\* A Run that reports the opposite of what pipe returned.
RunResultNegated(e) == e /= "nil"

\* PipedCmds.Run: pipe(p.cmds...) == nil
RunResult(e) == e = "nil"

InitWatchFiles ==
    /\ patternSet \in PatternSetIds
    /\ now = 0
    /\ mtime = [k \in EntryIds |-> 0]
    /\ watchFile = NilFile
    /\ last = NoCall
    /\ touched = FALSE
    /\ calls = 0
    /\ reported = "no"

InitWatch ==
    /\ wpc = "start"
    /\ cmd = NilProcess
    /\ procs = [p \in Pids |-> NoProc]
    /\ pgid = 0
    /\ killOk = "none"

\* The components a specification does not exercise stay as constructed.
IdleWatchFiles == InitWatchFiles /\ patternSet = 1

InitPipe ==
    /\ nCmds \in 1 .. MaxStages
    /\ cmds = [k \in Stages |-> NewCmd]
    /\ pipeStack = <<>>
    /\ closed = [c \in 0 .. (nCmds - 2) |-> 0]
    /\ ppc = "pipe_loop"
    /\ i = 0
    /\ head = 0
    /\ err = "nil"
    /\ ok = FALSE
    /\ log = <<>>

IdlePipe == InitPipe /\ nCmds = 1

\* A wiring loop that redirects the producer's side only.
PipeLoopStdoutOnly ==
    /\ ppc = "pipe_loop"
    /\ i < nCmds - 1
    /\ cmds' = [cmds EXCEPT ![i].Stdout = i]
    /\ pipeStack' = Append(pipeStack, i)
    /\ i' = i + 1
    /\ UNCHANGED <<nCmds, closed, ppc, head, err, ok, log>>
    /\ UNCHANGED notPipe

\* pipe, one iteration of the wiring loop (lines 119-124): channel i joins
\* stdout of stage i to stdin of stage i+1.
PipeLoop ==
    /\ ppc = "pipe_loop"
    /\ i < nCmds - 1
    /\ cmds' = [cmds EXCEPT ![i].Stdout = i, ![i + 1].Stdin = i]
    /\ pipeStack' = Append(pipeStack, i)
    /\ i' = i + 1
    /\ UNCHANGED <<nCmds, closed, ppc, head, err, ok, log>>
    /\ UNCHANGED notPipe

\* pipe, loop exit and the call of call(cmds, pipeStack) (line 125).
PipeCall ==
    /\ ppc = "pipe_loop"
    /\ ~(i < nCmds - 1)
    /\ ppc' = "call_head"
    /\ head' = 0
    /\ err' = "nil"
    /\ UNCHANGED <<nCmds, cmds, pipeStack, closed, i, ok, log>>
    /\ UNCHANGED notPipe

\* A frame that starts its head whether or not it has a process.
CallHeadStartsAgain(started) ==
    /\ ppc = "call_head"
    /\ IF started
       THEN /\ cmds' = [cmds EXCEPT ![head].Process = "running"]
            /\ ppc' = "call_next"
       ELSE /\ cmds' = cmds
            /\ ppc' = "call_return"
    /\ log' = Append(log, <<"start", head>>)
    /\ UNCHANGED <<nCmds, pipeStack, closed, i, head, err, ok>>
    /\ UNCHANGED notPipe

\* call, lines 132-136: start stack[0] unless it already has a process; a
\* failed Start returns the frame's err, which is still nil.
CallHead(started) ==
    /\ ppc = "call_head"
    /\ IF ProcessIsNil(head)
       THEN /\ IF started
               THEN /\ cmds' = [cmds EXCEPT ![head].Process = "running"]
                    /\ ppc' = "call_next"
               ELSE /\ cmds' = cmds
                    /\ ppc' = "call_return"
            /\ log' = Append(log, <<"start", head>>)
       ELSE /\ ppc' = "call_next"
            /\ UNCHANGED <<cmds, log>>
    /\ UNCHANGED <<nCmds, pipeStack, closed, i, head, err, ok>>
    /\ UNCHANGED notPipe

\* call, lines 137-147: with more than one stage left, start stack[1]; a
\* failed Start returns err (nil) before the deferred function is registered.
CallNext(started) ==
    /\ ppc = "call_next"
    /\ IF nCmds - head > 1
       THEN /\ IF started
               THEN /\ cmds' = [cmds EXCEPT ![head + 1].Process = "running"]
                    /\ ppc' = "call_wait"
               ELSE /\ cmds' = cmds
                    /\ ppc' = "call_return"
            /\ log' = Append(log, <<"start", head + 1>>)
       ELSE /\ ppc' = "call_wait"
            /\ UNCHANGED <<cmds, log>>
    /\ UNCHANGED <<nCmds, pipeStack, closed, i, head, err, ok>>
    /\ UNCHANGED notPipe

\* call, line 149: err = stack[0].Wait(), which blocks until the stage exited.
CallWait ==
    /\ ppc = "call_wait"
    /\ cmds[head].Process \in {"exit0", "exit1"}
    /\ err' = WaitResult(head)
    /\ log' = Append(log, <<"wait", head>>)
    /\ ppc' = "call_defer"
    /\ UNCHANGED <<nCmds, cmds, pipeStack, closed, i, head, ok>>
    /\ UNCHANGED notPipe

\* A deferred function that closes and recurses whatever the wait returned.
CallDeferIgnoresErr ==
    /\ ppc = "call_defer"
    /\ IF nCmds - head > 1
       THEN /\ closed' = [closed EXCEPT ![pipeStack[head + 1]] = @ + 1]
            /\ log' = Append(log, <<"close", pipeStack[head + 1]>>)
            /\ head' = head + 1
            /\ err' = "nil"
            /\ ppc' = "call_head"
       ELSE /\ ppc' = "call_return"
            /\ UNCHANGED <<closed, log, head, err>>
    /\ UNCHANGED <<nCmds, cmds, pipeStack, i, ok>>
    /\ UNCHANGED notPipe

\* A deferred function that recurses without closing the channel.
CallDeferSkipsClose ==
    /\ ppc = "call_defer"
    /\ IF nCmds - head > 1 /\ err = "nil"
       THEN /\ head' = head + 1
            /\ err' = "nil"
            /\ ppc' = "call_head"
            /\ UNCHANGED <<closed, log>>
       ELSE /\ ppc' = "call_return"
            /\ UNCHANGED <<closed, log, head, err>>
    /\ UNCHANGED <<nCmds, cmds, pipeStack, i, ok>>
    /\ UNCHANGED notPipe

\* call, lines 141-146: the deferred function, registered only when
\* len(stack) > 1: on err == nil close pipes[0] and recurse into stack[1:],
\* whose frame starts with a nil err of its own.
CallDefer ==
    /\ ppc = "call_defer"
    /\ IF nCmds - head > 1 /\ err = "nil"
       THEN /\ closed' = [closed EXCEPT ![pipeStack[head + 1]] = @ + 1]
            /\ log' = Append(log, <<"close", pipeStack[head + 1]>>)
            /\ head' = head + 1
            /\ err' = "nil"
            /\ ppc' = "call_head"
       ELSE /\ ppc' = "call_return"
            /\ UNCHANGED <<closed, log, head, err>>
    /\ UNCHANGED <<nCmds, cmds, pipeStack, i, ok>>
    /\ UNCHANGED notPipe

\* A deferred function that calls call(...) and drops what it returns.
CallReturnDropsErr ==
    /\ ppc = "call_return"
    /\ IF head > 0
       THEN /\ head' = head - 1
            /\ err' = "nil"
            /\ UNCHANGED <<ppc, ok>>
       ELSE /\ ok' = RunResult(err)
            /\ ppc' = "done"
            /\ UNCHANGED <<head, err>>
    /\ UNCHANGED <<nCmds, cmds, pipeStack, closed, i, log>>
    /\ UNCHANGED notPipe

\* A call frame returns err: to the deferred function of the frame below
\* (err = call(...), line 144), or from the outermost frame to pipe and Run
\* (lines 125-128, 112).
CallReturn ==
    /\ ppc = "call_return"
    /\ IF head > 0
       THEN /\ head' = head - 1
            /\ UNCHANGED <<ppc, ok>>
       ELSE /\ ok' = RunResult(err)
            /\ ppc' = "done"
            /\ UNCHANGED head
    /\ UNCHANGED <<nCmds, cmds, pipeStack, closed, i, err, log>>
    /\ UNCHANGED notPipe

\* The operating system: a running stage exits, with status zero or not.
StageExit(k, status) ==
    /\ cmds[k].Process = "running"
    /\ cmds' = [cmds EXCEPT ![k].Process = status]
    /\ UNCHANGED <<nCmds, pipeStack, closed, ppc, i, head, err, ok, log>>
    /\ UNCHANGED notPipe

NextPipe ==
    \/ PipeLoop
    \/ PipeCall
    \/ \E started \in BOOLEAN : CallHead(started)
    \/ \E started \in BOOLEAN : CallNext(started)
    \/ CallWait
    \/ CallDefer
    \/ CallReturn
    \/ \E k \in Stages, status \in {"exit0", "exit1"} : StageExit(k, status)

PipeInit == InitPipe /\ IdleWatchFiles /\ InitWatch

SpecPipe == PipeInit /\ [][NextPipe]_vars

\* Where the goroutine that runs pipe and call stands: every step of the
\* code changes it.
control == <<ppc, i, head>>

\* The goroutine that runs pipe and call is scheduled: a step of the code
\* that can be taken is taken.  Nothing makes a stage exit, and CallWait
\* can be taken only once the stage it waits for has exited.
SpecPipeFair ==
    /\ SpecPipe
    /\ WF_control(PipeLoop)
    /\ WF_control(PipeCall)
    /\ WF_control(\E started \in BOOLEAN : CallHead(started))
    /\ WF_control(\E started \in BOOLEAN : CallNext(started))
    /\ WF_control(CallWait)
    /\ WF_control(CallDefer)
    /\ WF_control(CallReturn)

\* ------------------------------------------------- claims on the pipeline
\* Start was called on stage k and left it without a process.
StartFailed(k) ==
    /\ \E n \in 1 .. Len(log) : log[n] = <<"start", k>>
    /\ cmds[k].Process = "nil"

\* C1: when Run has returned from a pipeline of N >= 1 stages all of which
\* started and exited with status zero, it returned true.
C1_AllZeroRunsTrue ==
    (ppc = "done" /\ \A k \in Stages : cmds[k].Process = "exit0") => ok = TRUE

\* C1, reached: a pipeline of several stages, all exited zero, reported true.
C1_Witness ==
    /\ ppc = "done"
    /\ nCmds >= 2
    /\ \A k \in Stages : cmds[k].Process = "exit0"
    /\ \A c \in 0 .. (nCmds - 2) : closed[c] = 1
    /\ ok = TRUE

\* C2: when Run has returned from a pipeline of N >= 2 stages in which no
\* Start failed and some stage k exited non-zero after all stages before it
\* exited zero, it returned false, whatever became of the stages after k.
C2_FailedStageRunsFalse ==
    ( /\ ppc = "done"
      /\ nCmds >= 2
      /\ \A k \in Stages : ~StartFailed(k)
      /\ \E k \in Stages : /\ cmds[k].Process = "exit1"
                           /\ \A j \in 0 .. (k - 1) : cmds[j].Process = "exit0" )
    => ok = FALSE

\* C2, reached: stage 1 of a longer pipeline failed after stage 0 succeeded,
\* its successor exited zero, and Run reported false.
C2_Witness ==
    /\ ppc = "done"
    /\ nCmds >= 3
    /\ cmds[0].Process = "exit0"
    /\ cmds[1].Process = "exit1"
    /\ cmds[2].Process = "exit0"
    /\ ok = FALSE

\* C3: when Run has returned from a pipeline one of whose stages failed to
\* start, it returned false.
C3_SpawnFailureRunsFalse ==
    (ppc = "done" /\ \E k \in Stages : StartFailed(k)) => ok = FALSE

\* Start was called on stage k (and succeeded or not).
StartCalled(k) == \E n \in 1 .. Len(log) : log[n] = <<"start", k>>

\* Every adjacent pair (k, k+1) is joined by a channel of its own: the same
\* channel on both sides, and a different one for every pair.
Wired ==
    /\ \A k \in 0 .. (nCmds - 2) : /\ cmds[k].Stdout /= NoChan
                                    /\ cmds[k + 1].Stdin = cmds[k].Stdout
    /\ \A j, k \in 0 .. (nCmds - 2) : j /= k => cmds[j].Stdout /= cmds[k].Stdout

\* The redirections of all stages.
Streams == [k \in Stages |-> <<cmds[k].Stdin, cmds[k].Stdout>>]

\* C12: by the time Start is first called on any stage every adjacent pair
\* is wired to the two ends of a channel of its own, and from then on no
\* redirection of any stage is set.
C12_WiredBeforeAnyStart ==
    [][/\ log' /= <<>> => Wired'
       /\ log /= <<>> => Streams' = Streams]_vars

\* C12, reached: a pipeline of three stages, all started, has run to its end
\* on the two channels it was wired with.
C12_Witness ==
    /\ ppc = "done"
    /\ nCmds >= 3
    /\ \A k \in Stages : StartCalled(k)
    /\ Wired
    /\ cmds[0].Stdout /= cmds[1].Stdout

\* The positions of the log at which the event is recorded.
At(event) == {n \in 1 .. Len(log) : log[n] = event}

\* C13: in one run Start is called on the stages in pipeline order and on
\* no stage twice; while call waits for (or has waited for) stage i, stage
\* i+1 has been started; and Start is called on stage i+2 only after the
\* wait for stage i has returned nil.
C13_StartOrder ==
    /\ \A m, n \in 1 .. Len(log) :
          (m < n /\ log[m][1] = "start" /\ log[n][1] = "start")
             => log[m][2] < log[n][2]
    /\ (ppc = "call_wait" /\ head + 1 < nCmds)
          => (StartCalled(head + 1) /\ ~ProcessIsNil(head + 1))
    /\ \A k \in Stages :
          (k + 1 < nCmds /\ At(<<"wait", k>>) /= {})
             => \E m \in At(<<"start", k + 1>>) :
                   \A n \in At(<<"wait", k>>) : m < n
    /\ \A k \in Stages :
          (k + 2 < nCmds)
             => \A n \in At(<<"start", k + 2>>) :
                   /\ \E m \in At(<<"wait", k>>) : m < n
                   /\ cmds[k].Process = "exit0"

\* C13, reached: a pipeline of three stages has run to its end, each stage
\* started, waited for and exited zero.
C13_Witness ==
    /\ ppc = "done"
    /\ nCmds >= 3
    /\ \A k \in Stages : /\ At(<<"start", k>>) /= {}
                          /\ At(<<"wait", k>>) /= {}
                          /\ cmds[k].Process = "exit0"

\* The channels in the order in which they were closed.
RECURSIVE Closes(_)
Closes(n) ==
    IF n = 0 THEN <<>>
    ELSE IF log[n][1] = "close" THEN Append(Closes(n - 1), log[n][2])
    ELSE Closes(n - 1)

\* C14: no channel is closed twice; channel c is closed only after the wait
\* for stage c has returned nil; and when Run has returned from a run in
\* which every stage started and exited zero, the channels 0 .. N-2 have
\* each been closed once, in that order.
C14_ChannelClosedOnce ==
    /\ \A c \in 0 .. (nCmds - 2) :
          /\ closed[c] <= 1
          /\ closed[c] = Cardinality(At(<<"close", c>>))
          /\ \A n \in At(<<"close", c>>) :
                /\ \E m \in At(<<"wait", c>>) : m < n
                /\ cmds[c].Process = "exit0"
    /\ (ppc = "done" /\ \A k \in Stages : cmds[k].Process = "exit0")
          => Closes(Len(log)) = [c \in 1 .. (nCmds - 1) |-> c - 1]

\* C14, reached: Run has returned from a pipeline of three stages that all
\* exited zero, with channel 0 closed before channel 1.
C14_Witness ==
    /\ ppc = "done"
    /\ nCmds >= 3
    /\ \A k \in Stages : cmds[k].Process = "exit0"
    /\ Closes(Len(log)) = <<0, 1>>
    /\ closed[0] = 1
    /\ closed[1] = 1

\* The wait for stage k has returned an error.
WaitFailed(k) == At(<<"wait", k>>) /= {} /\ cmds[k].Process = "exit1"

\* Run has returned false.
ReturnedFalse == ppc = "done" /\ ok = FALSE

\* C15: once the wait for stage k has returned an error, channel k and the
\* channels after it are not closed, stage k+1 is not waited for, no step
\* of call (a step that moves its control) touches the process of stage k+1
\* or of any other stage, Start is called on no stage after k+1, and Run
\* returns false whether or not any further stage exits.
C15_ShortCircuit ==
    /\ [](\A k \in Stages :
            WaitFailed(k)
               => /\ \A c \in k .. (nCmds - 2) : closed[c] = 0
                  /\ \A j \in (k + 1) .. (nCmds - 1) : At(<<"wait", j>>) = {}
                  /\ \A j \in (k + 2) .. (nCmds - 1) : ~StartCalled(j)
                  /\ ppc = "done" => ReturnedFalse)
    /\ [][\A k \in Stages : WaitFailed(k) => cmds' = cmds]_control
    /\ \A k \in 0 .. (MaxStages - 1) :
          (IF k \in Stages THEN WaitFailed(k) ELSE FALSE) ~> ReturnedFalse

\* C15, reached: Run has returned false from a pipeline of three stages in
\* which stage 0 exited non-zero while stage 1, started, is still running
\* and stage 2 was never started.
C15_Witness ==
    /\ ppc = "done"
    /\ ok = FALSE
    /\ nCmds >= 3
    /\ WaitFailed(0)
    /\ cmds[1].Process = "running"
    /\ ~StartCalled(2)
    /\ closed[0] = 0

\* The flat protocol on the stages' exit outcomes, from stage k on with the
\* channels closed so far: wait for stage k; on success close channel k (if
\* there is one) and go on with stage k+1; stop at the first wait error.
RECURSIVE Flat(_, _)
Flat(k, closedSoFar) ==
    IF k = nCmds THEN [success |-> TRUE, closed |-> closedSoFar]
    ELSE IF cmds[k].Process = "exit0"
         THEN Flat(k + 1, IF k <= nCmds - 2 THEN closedSoFar \cup {k}
                          ELSE closedSoFar)
    ELSE [success |-> FALSE, closed |-> closedSoFar]

\* The stage at which the flat protocol stops waiting (N: none).
FirstFailure ==
    IF \A k \in Stages : cmds[k].Process = "exit0" THEN nCmds
    ELSE CHOOSE k \in Stages :
            /\ cmds[k].Process /= "exit0"
            /\ \A j \in 0 .. (k - 1) : cmds[j].Process = "exit0"

\* C19: when Run has returned from a pipeline of N >= 1 stages none of whose
\* starts failed, the stage at which the flat protocol would stop has
\* exited non-zero, Run's result is the flat protocol's success, and the
\* channels that were closed are the ones the flat protocol closes.
C19_SameAsFlatProtocol ==
    (ppc = "done" /\ \A k \in Stages : ~StartFailed(k))
       => /\ FirstFailure < nCmds => cmds[FirstFailure].Process = "exit1"
          /\ ok = Flat(0, {}).success
          /\ {c \in 0 .. (nCmds - 2) : closed[c] > 0} = Flat(0, {}).closed

\* C19, reached: Run has returned from a pipeline of three stages of which
\* the first exited zero and the second did not: false, with channel 0
\* closed and channel 1 open, as in the flat protocol.
C19_Witness ==
    /\ ppc = "done"
    /\ nCmds >= 3
    /\ \A k \in Stages : ~StartFailed(k)
    /\ cmds[0].Process = "exit0"
    /\ cmds[1].Process = "exit1"
    /\ ok = FALSE
    /\ closed[0] = 1
    /\ closed[1] = 0
    /\ Flat(0, {}) = [success |-> FALSE, closed |-> {0}]

\* A refresh that keeps the sentinel it already has.
RefreshKeepsOld(createErr) ==
    IF createErr THEN NilFile
    ELSE IF watchFile = NilFile THEN now ELSE watchFile

\* refreshWatchFile: a new temporary file, modified now; on an error
\* os.CreateTemp's nil file is what watchFile is left with.
RefreshWatchFile(createErr) == IF createErr THEN NilFile ELSE now

\* A WatchFiles call that replaces the sentinel after every walk.
WatchFilesCallAlwaysRefreshes(errAt, fault) ==
    LET first == IF watchFile = NilFile
                 THEN RefreshWatchFile(fault = "create")
                 ELSE watchFile
    IN  IF first = NilFile
        THEN [result |-> FALSE, watchFile |-> NilFile, aborted |-> FALSE,
              met |-> "create", at |-> 0]
        ELSE LET w == Walk(1, first, errAt, fault = "stat")
             IN  [result |-> w.at /= 0,
                  watchFile |-> RefreshWatchFile(fault = "recreate"),
                  aborted |-> w.aborted,
                  met |-> IF w.at /= 0 /\ fault = "recreate" THEN "recreate" ELSE w.met,
                  at |-> w.at]

\* One WatchFiles call (lines 225-278): the value returned, the sentinel
\* afterwards, whether the walk was cut short by an error, the error the
\* call met and the entry its walk found changed.
WatchFilesCall(errAt, fault) ==
    LET first == IF watchFile = NilFile
                 THEN RefreshWatchFile(fault = "create")
                 ELSE watchFile
    IN  IF first = NilFile
        THEN [result |-> FALSE, watchFile |-> NilFile, aborted |-> FALSE,
              met |-> "create", at |-> 0]
        ELSE LET w == Walk(1, first, errAt, fault = "stat")
             IN  IF w.at /= 0
                 THEN [result |-> TRUE,
                       watchFile |-> RefreshWatchFile(fault = "recreate"),
                       aborted |-> FALSE,
                       met |-> IF fault = "recreate" THEN "recreate" ELSE "none",
                       at |-> w.at]
                 ELSE [result |-> FALSE, watchFile |-> first,
                       aborted |-> w.aborted, met |-> w.met, at |-> 0]

\* Some entry is dated after the clock.
Future == \E k \in EntryIds : mtime[k] > now

\* A caller calls WatchFiles(patterns, ignoredPatterns).
WatchFiles(errAt, fault) ==
    LET c == WatchFilesCall(errAt, fault)
    IN  /\ watchFile' = c.watchFile
        /\ last' = [called |-> TRUE, result |-> c.result, aborted |-> c.aborted,
                    future |-> Future,
                    quiet |-> /\ last.called
                              /\ ~touched
                              /\ ~last.future
                              /\ ~last.aborted,
                    met |-> c.met, at |-> c.at]
        /\ touched' = FALSE
        /\ calls' = 1 - calls
        /\ reported' = IF c.result THEN (IF Future THEN "late" ELSE "yes")
                       ELSE reported
        /\ UNCHANGED <<now, mtime, patternSet>>
        /\ UNCHANGED notWatch

\* The file system: file k is modified, which sets its modification time
\* to the clock's, or (a skewed clock, touch -d) to a later time.
Touch(k, t) ==
    /\ mtime' = [mtime EXCEPT ![k] = t]
    /\ touched' = TRUE
    /\ reported' = "no"
    /\ UNCHANGED <<now, watchFile, last, calls, patternSet>>
    /\ UNCHANGED notWatch

\* Time passes.
Tick ==
    /\ now < MaxTime
    /\ now' = now + 1
    /\ UNCHANGED <<mtime, watchFile, last, touched, calls, reported, patternSet>>
    /\ UNCHANGED notWatch

NextWatchFiles ==
    \/ \E errAt \in 0 .. Len(Entries), fault \in Faults :
          /\ errAt = 0 \/ fault = "none"
          /\ WatchFiles(errAt, fault)
    \/ \E k \in Files, t \in {now, now + 1} : Touch(k, t)
    \/ Tick

WatchFilesInit == IdlePipe /\ InitWatchFiles /\ InitWatch

SpecWatchFiles == WatchFilesInit /\ [][NextWatchFiles]_vars

\* -------------------------------------------------- claims on WatchFiles
\* The step is a WatchFiles call.
Called == calls' /= calls

\* The entry's name matches a watched pattern of the caller.
Watched(k) ==
    \E n \in 1 .. Len(PatternSets[patternSet].patterns) :
        Match(PatternSets[patternSet].patterns[n], Name(Entries[k].path))

\* The entry's path or name matches an ignored pattern of the caller.
IgnoredEntry(k) ==
    \E n \in 1 .. Len(PatternSets[patternSet].ignored) :
        \/ Match(PatternSets[patternSet].ignored[n], Entries[k].path)
        \/ Match(PatternSets[patternSet].ignored[n], Name(Entries[k].path))

\* Directory d lies above entry k in the tree.
Above(d, k) ==
    /\ Entries[d].dir
    /\ d /= k
    /\ \/ Entries[d].path = <<".">>
       \/ /\ Len(Entries[k].path) > Len(Entries[d].path)
          /\ SubSeq(Entries[k].path, 1, Len(Entries[d].path) + 1)
                = Entries[d].path \o <<"/">>

\* The reference time a call compares with: the sentinel's, or the clock's
\* when the call has to create the sentinel first.
Reference == IF watchFile = NilFile THEN now ELSE watchFile

\* A watched entry that is not ignored is dated after the sentinel.
Pending ==
    /\ watchFile /= NilFile
    /\ \E k \in EntryIds : Watched(k) /\ ~IgnoredEntry(k) /\ mtime[k] > watchFile

\* C4 as stated: of two consecutive WatchFiles calls with no modification
\* in between and no entry dated after the clock, the second returns false.
C4_SecondCallFalse ==
    [][(Called /\ last.called /\ ~touched /\ ~last.future) => ~last'.result]_vars

\* C4 as amended: of two consecutive WatchFiles calls with no modification
\* in between and no entry dated after the clock, the second returns false
\* provided the walk of the first was not cut short by an error.
C4_SecondCallFalseAfterFullWalk ==
    [][(Called /\ last.called /\ ~touched /\ ~last.future /\ ~last.aborted)
          => ~last'.result]_vars

\* C4, reached: a call reported a change, and the call that followed it
\* with nothing modified in between returned false.
C4_Witness ==
    /\ last.called
    /\ last.quiet
    /\ ~last.result
    /\ reported = "yes"

\* C5 as stated: a call made with a watched, non-ignored entry dated after
\* the sentinel returns true, and every call after a reporting call, as long
\* as nothing is modified, returns false.
C5_ReportedOnce ==
    [][Called => /\ Pending => last'.result
                 /\ reported /= "no" => ~last'.result]_vars

\* C5 as amended: a call made with a watched, non-ignored entry dated after
\* the sentinel returns true unless its walk is cut short by an error, and
\* every call after a reporting call at which no entry was dated after the
\* clock, as long as nothing is modified, returns false.
C5_ReportedOnceAbsentErrors ==
    [][Called => /\ (Pending /\ ~last'.aborted) => last'.result
                 /\ reported = "yes" => ~last'.result]_vars

\* C5, reached: both files were modified, one call reported the change, and
\* the call after it returned false with the sentinel rolled past both.
C5_Witness ==
    /\ reported = "yes"
    /\ last.called
    /\ ~last.result
    /\ watchFile /= NilFile
    /\ \A k \in Files : Watched(k) /\ ~IgnoredEntry(k)
                        /\ mtime[k] > 0 /\ mtime[k] <= watchFile

\* C6: a WatchFiles call returns true only with a watched entry dated after
\* the reference that matches no ignored pattern, by path or by name: an
\* ignored entry never is the cause.
C6_IgnoredNeverReported ==
    [][(Called /\ last'.result)
          => \E k \in EntryIds : /\ Watched(k)
                                 /\ ~IgnoredEntry(k)
                                 /\ mtime[k] > Reference]_vars

\* C6, reached: a call walked the whole tree while an entry that is watched
\* and ignored was dated after the sentinel, and returned false.
C6_Witness ==
    /\ last.called
    /\ ~last.result
    /\ ~last.aborted
    /\ ~touched
    /\ watchFile /= NilFile
    /\ \E k \in EntryIds : Watched(k) /\ IgnoredEntry(k) /\ mtime[k] > watchFile

\* C7: a WatchFiles call returns true only with a watched, non-ignored entry
\* dated after the reference that lies below no ignored directory.
C7_IgnoredDirNotDescended ==
    [][(Called /\ last'.result)
          => \E k \in EntryIds :
                /\ Watched(k)
                /\ ~IgnoredEntry(k)
                /\ ~\E d \in EntryIds : Above(d, k) /\ IgnoredEntry(d)
                /\ mtime[k] > Reference]_vars

\* C11: a WatchFiles call whose walk meets an error on an entry stops
\* walking there, returns false and leaves the sentinel as the walk used it;
\* the call after it, when it meets no error itself, returns true exactly
\* when a watched, non-ignored entry is dated after that sentinel.
C11_WalkErrorSkipsOnePoll ==
    [][Called => /\ last'.met = "walk"
                      => /\ ~last'.result
                         /\ last'.at = 0
                         /\ watchFile' = Reference
                 /\ (last.met = "walk" /\ last'.met = "none")
                      => (last'.result <=> Pending)]_vars

\* C11, reached: a call walked into an error and returned false while a
\* watched, non-ignored entry was dated after the sentinel, which it kept.
C11_Witness ==
    /\ last.called
    /\ last.met = "walk"
    /\ ~last.result
    /\ ~touched
    /\ now > watchFile
    /\ Pending

\* C16: the sentinel's time changes in no step but a WatchFiles call; a call
\* that returns false leaves an existing sentinel's time as it is (and
\* without one can only create it, dated at the call); a call that returns
\* true sets the sentinel's time to the time of the call.
C16_SentinelFollowsReports ==
    [][/\ ~Called => watchFile' = watchFile
       /\ Called => /\ (~last'.result /\ watchFile /= NilFile)
                         => watchFile' = watchFile
                    /\ (~last'.result /\ watchFile = NilFile)
                         => watchFile' \in {NilFile, now}
                    /\ last'.result => watchFile' = now]_vars

\* The entries a call counts as changed: watched by name, ignored neither
\* by path nor by name, and dated strictly after the reference.
ChangedEntries ==
    {k \in EntryIds : Watched(k) /\ ~IgnoredEntry(k) /\ mtime[k] > Reference}

\* C17: a WatchFiles call that meets no error of the walk or of the
\* sentinel returns true exactly when some entry is watched, not ignored
\* and dated strictly after the reference (an entry dated at the reference
\* does not count), and its walk stops at the first such entry.
C17_TrueIffChangedEntry ==
    [][(Called /\ last'.met = "none")
          => /\ last'.result <=> ChangedEntries /= {}
             /\ last'.result
                  => /\ last'.at \in ChangedEntries
                     /\ \A k \in ChangedEntries : last'.at <= k]_vars

\* C17, reached: with both files watched, not ignored and modified, a call
\* that met no error returned true on the first of them.
C17_Witness ==
    /\ last.called
    /\ last.result
    /\ last.met = "none"
    /\ last.at = 2
    /\ ~touched
    /\ \A k \in Files : Watched(k) /\ ~IgnoredEntry(k) /\ mtime[k] > 0

\* ---------------------------------------------------------------- Watch
FreePids == {p \in Pids : procs[p].state = "none"}
NextPid == CHOOSE p \in FreePids : \A q \in FreePids : p <= q

\* NewCmd and Cmd.Start (lines 153-159, 41-47): SysProcAttr.Setpgid makes
\* the new process the leader of a new group, whose id is its pid.
StartedProc(p) == [state |-> "running", child |-> TRUE, pgid |-> p, sigterm |-> FALSE]

\* CmdAsync (lines 176-184): the handle is returned whether or not Start
\* succeeded; after a failed Start its Process is nil.
CmdAsync(started) ==
    IF started
    THEN /\ FreePids /= {}
         /\ procs' = [procs EXCEPT ![NextPid] = StartedProc(NextPid)]
         /\ cmd' = NextPid
    ELSE /\ procs' = procs
         /\ cmd' = NilProcess

\* Watch, line 281.
WatchStart(started) ==
    /\ wpc = "start"
    /\ CmdAsync(started)
    /\ wpc' = "poll"
    /\ UNCHANGED <<pgid, killOk>>
    /\ UNCHANGED <<pipeVars, watchVars>>

\* Watch, lines 283 and 287: one WatchFiles call; without a change the loop
\* sleeps and polls again.
WatchPoll(errAt, fault) ==
    /\ wpc = "poll"
    /\ LET c == WatchFilesCall(errAt, fault)
       IN  /\ watchFile' = c.watchFile
           /\ wpc' = IF c.result THEN "kill" ELSE "poll"
    /\ UNCHANGED <<now, mtime, last, touched, calls, reported, patternSet>>
    /\ UNCHANGED <<cmd, procs, pgid, killOk>>
    /\ UNCHANGED pipeVars

\* KillGroup, lines 78-83: c.Process().Pid dereferences the handle's
\* process, which is nil after a failed Start: the goroutine panics.
\* Otherwise syscall.Getpgid resolves the group or fails; whether it fails
\* is the operating system's choice.
KillGetpgid(resolved) ==
    /\ wpc = "kill"
    /\ IF cmd = NilProcess
       THEN /\ wpc' = "panic"
            /\ UNCHANGED <<pgid, killOk>>
       ELSE IF resolved
            THEN /\ pgid' = procs[cmd].pgid
                 /\ wpc' = "signal"
                 /\ UNCHANGED killOk
            ELSE /\ killOk' = FALSE
                 /\ wpc' = "respawn"
                 /\ UNCHANGED pgid
    /\ UNCHANGED <<cmd, procs>>
    /\ UNCHANGED <<pipeVars, watchVars>>

\* A kill of the one process whose id is the group's (a positive pid).
GroupLeaderOnly(g) == {p \in Pids : procs[p].state \in {"running", "zombie"} /\ p = g}

\* syscall.Kill(-pgid, SIGTERM): the processes the signal goes to.
GroupMembers(g) == {p \in Pids : procs[p].state \in {"running", "zombie"} /\ procs[p].pgid = g}

\* KillGroup, lines 85-88.  The local pgid ends with the call.
KillSignal(delivered) ==
    /\ wpc = "signal"
    /\ IF delivered
       THEN /\ procs' = [p \in Pids |->
                           IF p \in GroupMembers(pgid)
                           THEN [procs[p] EXCEPT !.sigterm = TRUE]
                           ELSE procs[p]]
            /\ wpc' = "wait"
            /\ UNCHANGED <<killOk, pgid>>
       ELSE /\ killOk' = FALSE
            /\ wpc' = "respawn"
            /\ pgid' = 0
            /\ UNCHANGED procs
    /\ UNCHANGED cmd
    /\ UNCHANGED <<pipeVars, watchVars>>

\* KillGroup, lines 90-91: Wait blocks until the handle's process exited.
\* Line 90 reads cmd.Wait() where no cmd is in scope; it is taken to be the
\* receiver's c.cmd.Wait().
KillWait ==
    /\ wpc = "wait"
    /\ procs[cmd].state = "zombie"
    /\ procs' = [procs EXCEPT ![cmd].state = "gone"]
    /\ killOk' = TRUE
    /\ wpc' = "respawn"
    /\ pgid' = 0
    /\ UNCHANGED cmd
    /\ UNCHANGED <<pipeVars, watchVars>>

\* Watch, line 285: whatever KillGroup returned, a new child is spawned.
WatchRespawn(started) ==
    /\ wpc = "respawn"
    /\ CmdAsync(started)
    /\ wpc' = "poll"
    /\ UNCHANGED <<pgid, killOk>>
    /\ UNCHANGED <<pipeVars, watchVars>>

\* A process that is no more and that nobody holds a handle of.
Gone == [state |-> "gone", child |-> FALSE, pgid |-> 0, sigterm |-> FALSE]

\* The operating system: a running process exits, of its own accord or on
\* a signal.  A child of Watch stays a zombie until it is waited for.
ProcExit(p) ==
    /\ procs[p].state = "running"
    /\ procs' = [procs EXCEPT ![p] = IF procs[p].child
                                     THEN [procs[p] EXCEPT !.state = "zombie"]
                                     ELSE Gone]
    /\ UNCHANGED <<wpc, cmd, pgid, killOk>>
    /\ UNCHANGED <<pipeVars, watchVars>>

\* A running child forks a process of its own, which inherits the group.
ProcFork(p) ==
    /\ procs[p].state = "running"
    /\ procs[p].child
    /\ FreePids /= {}
    /\ procs' = [procs EXCEPT ![NextPid] =
                    [state |-> "running", child |-> FALSE,
                     pgid |-> procs[p].pgid, sigterm |-> FALSE]]
    /\ UNCHANGED <<wpc, cmd, pgid, killOk>>
    /\ UNCHANGED <<pipeVars, watchVars>>

\* A child's own child leaves the group it was born in (setpgid(0, 0)).  The
\* child itself stays the leader of the group it was started in.
ProcSetpgid(p) ==
    /\ procs[p].state = "running"
    /\ ~procs[p].child
    /\ procs[p].pgid /= p
    /\ procs' = [procs EXCEPT ![p].pgid = p]
    /\ UNCHANGED <<wpc, cmd, pgid, killOk>>
    /\ UNCHANGED <<pipeVars, watchVars>>

\* The first file of the tree, a watched one, is the file being worked on.
WatchedFile == CHOOSE k \in Files : \A j \in Files : k <= j

\* The watched file is modified.
WatchTouch ==
    /\ mtime' = [mtime EXCEPT ![WatchedFile] = now]
    /\ UNCHANGED <<now, watchFile, last, touched, calls, reported, patternSet>>
    /\ UNCHANGED <<pipeVars, loopVars>>

NextWatch ==
    \/ \E started \in BOOLEAN : WatchStart(started)
    \/ \E errAt \in 0 .. Len(Entries), fault \in Faults :
          /\ errAt = 0 \/ fault = "none"
          /\ WatchPoll(errAt, fault)
    \/ \E resolved \in BOOLEAN : KillGetpgid(resolved)
    \/ \E delivered \in BOOLEAN : KillSignal(delivered)
    \/ KillWait
    \/ \E started \in BOOLEAN : WatchRespawn(started)
    \/ \E p \in Pids : ProcExit(p)
    \/ \E p \in Pids : ProcFork(p)
    \/ \E p \in Pids : ProcSetpgid(p)
    \/ WatchTouch
    \/ Tick

WatchInit == IdlePipe /\ IdleWatchFiles /\ InitWatch

SpecWatch == WatchInit /\ [][NextWatch]_vars

\* ------------------------------------------------------ claims on Watch
\* The children Watch started that have not exited.
LiveChildren == {p \in Pids : procs[p].child /\ procs[p].state = "running"}

C9_AtMostOneLiveChild == Cardinality(LiveChildren) <= 1

\* C10: the Watch loop never crashes, also not when it kills a handle whose
\* Start failed.
C10_WatchNeverCrashes == wpc /= "panic"

\* C18: Watch starts with a spawned child and no step ends the loop; the
\* handle changes and SIGTERM is sent in no step but the start and the
\* kill and spawn that follow a poll reporting a change (a poll that reports
\* none goes back to polling and leaves handle and processes alone); after
\* such a poll the next step of Watch signals the child's group, and the
\* spawn that follows comes after that signal and the child's exit.
C18_WatchRestartsOnChange ==
    [][/\ wpc' /= "panic"
       /\ (wpc = "start" /\ wpc' = "poll") => cmd' \in LiveChildren'
       /\ cmd' /= cmd => wpc \in {"start", "respawn"}
       /\ (\E p \in Pids : procs'[p].sigterm /\ ~procs[p].sigterm)
            => wpc = "signal"
       /\ (wpc = "kill" /\ wpc' /= "kill") => wpc' = "signal"
       /\ (wpc = "signal" /\ wpc' /= "signal")
            => (wpc' = "wait" /\ \A p \in GroupMembers(cmd) : procs'[p].sigterm)
       /\ (wpc = "respawn" /\ wpc' /= "respawn")
            => /\ procs[cmd].sigterm
               /\ procs[cmd].state = "gone"
               /\ wpc' = "poll"
               /\ cmd' /= cmd]_vars

====
